---- MODULE Spec2Model ----
(***************************************************************************)
(* A model of three parts of UQpy:                                         *)
(*   - sampling/MonteCarloSampling.py       (MonteCarloSampling)           *)
(*   - sensitivity/baseclass/sensitivity.py (Sensitivity)                  *)
(*   - utilities/kernels/baseclass/GrassmannianKernel.py                   *)
(* Arrays are sequences of rows, a row is a sequence of entries.  A random *)
(* draw is the tuple <<distribution, seed, position, component>>: the      *)
(* value a generator seeded with `seed` gives at stream position           *)
(* `position`.  None is the empty tuple.                                   *)
(***************************************************************************)
EXTENDS Integers, Sequences, FiniteSets, TLC

VARIABLES
    built,          \* a MonteCarloSampling object exists
    dist_object,    \* self.dist_object: [is_list, ds]
    array,          \* self.array
    list,           \* self.list
    random_state,   \* self.random_state: None or <<seed, position>>
    np_global,      \* position of numpy's global random stream
    samples,        \* self.samples: [tag, rows]
    x,              \* self.x: [tag, rows]
    samples_number, \* self.samples_number: None or <<n>>
    samplesU01,     \* self.samplesU01: [tag, rows]
    ragged_ok,      \* numpy makes an object array of ragged input (before 1.24)
    last,           \* history: the last call and how it ended
    segs,           \* history: one record per run that returned normally
    u01_src,        \* history: self.samples at the last transform that returned
    ncalls,         \* history: calls made so far whose body ran
    clean,          \* history: no run has raised out of its body so far
    \* Sensitivity._run_model and the RunModel it drives
    heap,           \* the list and array objects, by identity
    qoi_list,       \* runmodel_object.qoi_list: the identity of the list
    returned,       \* history: what each _run_model call returned
    append_flags,   \* history: append_samples of each evaluator run
    \* Sensitivity.__init__
    sensitivity,    \* the constructor call: its arguments and how it ended
    \* Sensitivity.bootstrapping
    boot,           \* the bootstrapping calls: arguments, global source, results
    \* GrassmannianKernel.calculate_kernel_matrix
    kernel          \* the last call: its inputs, the matrix, the pairs scored

mcs_vars == <<built, dist_object, array, list, random_state, np_global, samples,
              x, samples_number, samplesU01, ragged_ok, last, segs, u01_src,
              ncalls, clean>>
sens_vars == <<heap, qoi_list, returned, append_flags>>
boot_vars == <<boot>>
kern_vars == <<kernel>>
ctor_vars == <<sensitivity>>
vars == <<mcs_vars, sens_vars, boot_vars, kern_vars, ctor_vars>>

---------------------------------------------------------------------------
(* Bounds of the model *)
MaxCount == 2       \* largest samples_number passed to run
MaxCalls == 3       \* most calls on one sampler whose body runs

None == <<>>
GlobalSeed == 0     \* names numpy's global stream
Seeds == {1, 2}     \* the integer seeds passed as random_state
Counts == (0 - 1)..MaxCount

---------------------------------------------------------------------------
(* Distributions: the capabilities MonteCarloSampling looks at *)
Norm1 == [id |-> 1, kind |-> "1D", dim |-> 1, rvs |-> TRUE, cdf |-> TRUE]
Norm2 == [id |-> 2, kind |-> "1D", dim |-> 1, rvs |-> TRUE, cdf |-> TRUE]
MVN == [id |-> 3, kind |-> "ND", dim |-> 2, rvs |-> TRUE, cdf |-> TRUE]
NoRvs == [id |-> 4, kind |-> "1D", dim |-> 1, rvs |-> FALSE, cdf |-> TRUE]
NoCdf == [id |-> 5, kind |-> "1D", dim |-> 1, rvs |-> TRUE, cdf |-> FALSE]

Single(d) == [is_list |-> FALSE, ds |-> <<d>>]
ListOf(s) == [is_list |-> TRUE, ds |-> s]

\* the `distributions` arguments the constructor is given
DistObjects ==
    { Single(Norm1), Single(MVN), Single(NoRvs), Single(NoCdf),
      ListOf(<<>>), ListOf(<<Norm1, Norm2>>), ListOf(<<Norm1, NoRvs>>),
      ListOf(<<Norm1, NoCdf>>), ListOf(<<Norm1, MVN>>) }

\* the `random_state` arguments: None, an int, or a RandomState object
RandomStateArgs ==
    { [kind |-> "none", seed |-> 0, pos |-> 0] }
    \cup { [kind |-> "int", seed |-> s, pos |-> 0] : s \in Seeds }

NoArray == [tag |-> "none", rows |-> <<>>]
Scalar0d == [tag |-> "scalar0d", rows |-> <<>>]
Rows(r) == [tag |-> "rows", rows |-> r]

---------------------------------------------------------------------------
(* UQpy.utilities.Utilities.process_random_state *)
process_random_state(arg) ==
    IF arg.kind = "none" THEN None ELSE <<arg.seed, arg.pos>>

(* UQpy.utilities.ValidationTypes.PositiveInteger *)
PositiveInteger(n) == n > 0

(* Distribution.rvs(nsamples, random_state): an (nsamples, dim) array drawn
   from the stream `seed` at positions pos .. pos+nsamples-1 *)
rvs(d, nsamples, seed, pos) ==
    [i \in 1..nsamples |-> [c \in 1..d.dim |-> <<d.id, seed, pos + i - 1, c>>]]

(* Distribution.cdf(x) *)
cdf(d, v) == <<d.id, v>>

---------------------------------------------------------------------------
(* The random stream a call draws from: the generator it is given, or
   numpy's global stream when random_state is None *)
StreamSeed(rs) == IF rs = None THEN GlobalSeed ELSE rs[1]
StreamPos(rs, g) == IF rs = None THEN g ELSE rs[2]
Advance(rs, k) == IF rs = None THEN None ELSE <<rs[1], rs[2] + k>>
AdvanceGlobal(rs, g, k) == IF rs = None THEN g + k ELSE g

\* numpy.atleast_2d, as numpy.vstack applies it to each argument
atleast_2d(a) == IF a.tag = "rows" THEN a.rows ELSE << <<None>> >>

\* the elements of one np.array(y) of the list branch differ in length
Ragged(ds) == \E i, j \in 1..Len(ds) : ds[i].dim # ds[j].dim

FirstWithoutRvs(ds) ==
    IF \A i \in 1..Len(ds) : ds[i].rvs THEN 0
    ELSE CHOOSE i \in 1..Len(ds) :
            /\ ~ds[i].rvs
            /\ \A j \in 1..(i - 1) : ds[j].rvs

\* the list branch with every distribution drawing from the generator's
\* state at the start of the call
DrawList_fresh(st, do, n, rs, build_ragged_ok) ==
    LET ds == do.ds
        k == Len(ds)
        temp_samples == [i \in 1..k |->
                           rvs(ds[i], n, StreamSeed(rs), StreamPos(rs, st.np_global))]
    IN  [raised |-> "", drawn |-> k * n,
         x |-> Rows([j \in 1..n |-> [i \in 1..k |-> temp_samples[i][j]]])]

(* MonteCarloSampling.run, lines 152-165: the list branch up to self.x.
   [raised, drawn, x]: drawn counts the stream positions consumed *)
DrawList(st, do, n, rs, build_ragged_ok) ==
    LET ds == do.ds
        k == Len(ds)
        seed == StreamSeed(rs)
        pos == StreamPos(rs, st.np_global)
        miss == FirstWithoutRvs(ds)
        temp_samples == [i \in 1..k |-> rvs(ds[i], n, seed, pos + (i - 1) * n)]
    IN  IF miss # 0
        THEN [raised |-> "ValueError", drawn |-> (miss - 1) * n, x |-> st.x]
        ELSE IF Ragged(ds) /\ ~build_ragged_ok
        THEN [raised |-> "ValueError", drawn |-> k * n, x |-> Rows(<<>>)]
        ELSE [raised |-> "", drawn |-> k * n,
              x |-> Rows([j \in 1..n |-> [i \in 1..k |-> temp_samples[i][j]]])]

(* MonteCarloSampling.run, lines 166-169: a single distribution *)
DrawSingle(st, do, n, rs) ==
    LET d == do.ds[1]
    IN  IF d.rvs
        THEN [raised |-> "", drawn |-> n,
              x |-> Rows(rvs(d, n, StreamSeed(rs), StreamPos(rs, st.np_global)))]
        ELSE [raised |-> "", drawn |-> 0, x |-> st.x]

\* np.hstack(np.array(self.x)).T for a list of 1-D distributions
HstackT(xr) ==
    IF Len(xr) = 0 \/ Len(xr[1]) = 0 THEN <<>>
    ELSE [j \in 1..Len(xr) |-> [i \in 1..Len(xr[j]) |-> xr[j][i][1]]]

(* MonteCarloSampling.run, lines 171-183: self.samples from self.x *)
Assemble(st, do, is_array, newx) ==
    IF st.samples.tag = "none"
    THEN IF do.is_list /\ is_array THEN Rows(HstackT(newx.rows))
         ELSE IF newx.tag = "rows" THEN newx ELSE Scalar0d
    ELSE IF do.is_list /\ is_array
         THEN Rows(st.samples.rows \o HstackT(newx.rows))
         ELSE Rows(atleast_2d(st.samples) \o atleast_2d(newx))

(* MonteCarloSampling.run, lines 146-186: the body of the call on the object
   state st.  Returns [st, outcome, seg]. *)
run_body(st, do, is_array, build_ragged_ok, samples_number_arg, arg) ==
    LET n == samples_number_arg
        rs == IF arg.kind # "none" THEN process_random_state(arg)
              ELSE st.random_state
        dr == IF do.is_list THEN DrawList(st, do, n, rs, build_ragged_ok)
              ELSE DrawSingle(st, do, n, rs)
        st1 == [st EXCEPT !.random_state = Advance(rs, dr.drawn),
                          !.np_global = AdvanceGlobal(rs, st.np_global, dr.drawn),
                          !.x = dr.x]
        seg == [n |-> n, seed |-> StreamSeed(rs),
                pos |-> StreamPos(rs, st.np_global),
                seeded |-> arg.kind # "none"]
    IN  IF dr.raised # ""
        THEN [st |-> st1, outcome |-> dr.raised, seg |-> <<>>]
        ELSE LET new == Assemble(st1, do, is_array, dr.x)
             IN  IF new.tag = "scalar0d"
                 THEN [st |-> [st1 EXCEPT !.samples = new],
                       outcome |-> "TypeError", seg |-> <<>>]
                 ELSE [st |-> [st1 EXCEPT !.samples = new,
                                          !.samples_number = <<Len(new.rows)>>],
                       outcome |-> "ok", seg |-> <<seg>>]

Rejected(st) ==
    [st |-> st, outcome |-> "BeartypeCallHintParamViolation", seg |-> <<>>]

\* run without the check of its arguments
run_unchecked(st, do, is_array, build_ragged_ok, samples_number_arg, arg) ==
    run_body(st, do, is_array, build_ragged_ok, samples_number_arg, arg)

\* run that draws its batch from the given seed and keeps the old generator
run_seed_once(st, do, is_array, build_ragged_ok, samples_number_arg, arg) ==
    IF ~PositiveInteger(samples_number_arg) THEN Rejected(st)
    ELSE LET r == run_body(st, do, is_array, build_ragged_ok,
                           samples_number_arg, arg)
         IN  IF arg.kind = "none" THEN r
             ELSE [r EXCEPT !.st.random_state = st.random_state]

(* MonteCarloSampling.run, lines 144-186: the whole call, the check of the
   arguments by beartype included *)
run(st, do, is_array, build_ragged_ok, samples_number_arg, arg) ==
    IF ~PositiveInteger(samples_number_arg) THEN Rejected(st)
    ELSE run_body(st, do, is_array, build_ragged_ok, samples_number_arg, arg)

---------------------------------------------------------------------------
\* the entries of one row are all draws (none is a None of a missing array)
RowOfDraws(row) == \A c \in 1..Len(row) : row[c] # None

(* MonteCarloSampling.transform_u01: [raised, u01] *)
transform_u01(do, is_array, is_list, smp, number) ==
    LET ds == do.ds
        k == Len(ds)
        m == IF number = None THEN 0 ELSE number[1]
    IN  IF do.is_list /\ is_array
        THEN \* lines 190-199
             IF number = None THEN [raised |-> "TypeError", u01 |-> NoArray]
             ELSE IF m > 0 /\ \E j \in 1..k : ~ds[j].cdf
             THEN [raised |-> "ValueError", u01 |-> NoArray]
             ELSE [raised |-> "",
                   u01 |-> Rows([i \in 1..m |->
                              [j \in 1..k |-> cdf(ds[j], smp.rows[i][j])]])]
        ELSE IF ~do.is_list
        THEN \* lines 201-209
             IF ~ds[1].cdf THEN [raised |-> "ValueError", u01 |-> NoArray]
             ELSE IF number = None THEN [raised |-> "TypeError", u01 |-> NoArray]
             ELSE IF \E i \in 1..m : ~RowOfDraws(smp.rows[i])
             THEN [raised |-> "TypeError", u01 |-> NoArray]
             ELSE [raised |-> "",
                   u01 |-> Rows([i \in 1..m |->
                              [c \in 1..Len(smp.rows[i]) |-> cdf(ds[1], smp.rows[i])]])]
        ELSE IF do.is_list /\ is_list
        THEN \* lines 211-223
             IF number = None THEN [raised |-> "TypeError", u01 |-> NoArray]
             ELSE IF m > 0 /\ \E j \in 1..k : ~ds[j].cdf
             THEN [raised |-> "ValueError", u01 |-> NoArray]
             ELSE [raised |-> "",
                   u01 |-> Rows([i \in 1..m |->
                              [j \in 1..k |-> cdf(ds[j], smp.rows[i][j])]])]
        ELSE [raised |-> "none", u01 |-> NoArray]

(* MonteCarloSampling._process_distributions: [list, array] *)
_process_distributions(do) ==
    IF do.is_list
    THEN LET add_continuous_1d ==
                 Cardinality({i \in 1..Len(do.ds) : do.ds[i].kind = "1D"})
         IN  IF add_continuous_1d = Len(do.ds)
             THEN [list |-> FALSE, array |-> TRUE]
             ELSE [list |-> TRUE, array |-> FALSE]
    ELSE [list |-> FALSE, array |-> TRUE]

ObjState == [random_state |-> random_state, np_global |-> np_global,
             samples |-> samples, x |-> x, samples_number |-> samples_number]

Call(op, outcome) == [op |-> op, outcome |-> outcome]

\* a call that is turned away before its body runs is not counted
Counted(outcome) == IF outcome = "BeartypeCallHintParamViolation" THEN 0 ELSE 1

(* MonteCarloSampling.__init__, lines 101-119 *)
Construct(distributions, samples_number_arg, arg) ==
    /\ ~built
    /\ ncalls < MaxCalls
    /\ ragged_ok' \in (IF Ragged(distributions.ds) THEN BOOLEAN ELSE {FALSE})
    /\ LET pd == _process_distributions(distributions)
           st0 == [random_state |-> process_random_state(arg),
                   np_global |-> np_global,
                   samples |-> NoArray, x |-> NoArray,
                   samples_number |-> samples_number_arg]
           self_rs == IF st0.random_state = None
                      THEN [kind |-> "none", seed |-> 0, pos |-> 0]
                      ELSE [kind |-> "obj", seed |-> st0.random_state[1],
                            pos |-> st0.random_state[2]]
           r == IF samples_number_arg = None
                THEN [st |-> st0, outcome |-> "ok", seg |-> <<>>]
                ELSE run(st0, distributions, pd.array, ragged_ok',
                         samples_number_arg[1], self_rs)
       IN  /\ ncalls' = ncalls + Counted(r.outcome)
           /\ np_global' = r.st.np_global
           /\ last' = Call("init", r.outcome)
           /\ IF r.outcome = "ok"
              THEN /\ built' = TRUE
                   /\ dist_object' = distributions
                   /\ array' = pd.array
                   /\ list' = pd.list
                   /\ random_state' = r.st.random_state
                   /\ samples' = r.st.samples
                   /\ x' = r.st.x
                   /\ samples_number' = r.st.samples_number
                   /\ segs' = r.seg
              ELSE UNCHANGED <<built, dist_object, array, list, random_state,
                               samples, x, samples_number, segs>>
    /\ UNCHANGED <<samplesU01, u01_src, clean>>
    /\ UNCHANGED <<sens_vars, boot_vars, kern_vars, ctor_vars>>

(* MonteCarloSampling.run, lines 144-186 *)
Run(samples_number_arg, arg) ==
    /\ built
    /\ ncalls < MaxCalls
    /\ LET r == run(ObjState, dist_object, array, ragged_ok, samples_number_arg, arg)
       IN  /\ ncalls' = ncalls + Counted(r.outcome)
           /\ random_state' = r.st.random_state
           /\ np_global' = r.st.np_global
           /\ samples' = r.st.samples
           /\ x' = r.st.x
           /\ samples_number' = r.st.samples_number
           /\ segs' = segs \o r.seg
           /\ clean' = (clean /\ r.outcome \in {"ok", "BeartypeCallHintParamViolation"})
           /\ last' = Call("run", r.outcome)
    /\ UNCHANGED <<built, dist_object, array, list, samplesU01, ragged_ok, u01_src>>
    /\ UNCHANGED <<sens_vars, boot_vars, kern_vars, ctor_vars>>

(* MonteCarloSampling.transform_u01, lines 188-223 *)
TransformU01 ==
    /\ built
    /\ ncalls < MaxCalls
    /\ ncalls' = ncalls + 1
    /\ LET r == transform_u01(dist_object, array, list, samples, samples_number)
       IN  /\ last' = Call("transform_u01", IF r.raised = "" THEN "ok" ELSE r.raised)
           /\ IF r.raised = ""
              THEN samplesU01' = r.u01 /\ u01_src' = samples
              ELSE UNCHANGED <<samplesU01, u01_src>>
    /\ UNCHANGED <<built, dist_object, array, list, random_state, np_global,
                   samples, x, samples_number, ragged_ok, segs, clean>>
    /\ UNCHANGED <<sens_vars, boot_vars, kern_vars, ctor_vars>>

MCSNext ==
    \/ \E d \in DistObjects, n \in {None} \cup {<<c>> : c \in Counts},
          a \in RandomStateArgs : Construct(d, n, a)
    \/ \E n \in Counts, a \in RandomStateArgs : Run(n, a)
    \/ TransformU01

---------------------------------------------------------------------------
(* Sensitivity._run_model.  Lists and arrays are objects of `heap`, named by
   their index, so that two names of one object are told from two objects. *)
MaxBatch == 2       \* most samples of one _run_model call
MaxEvalCalls == 4   \* most _run_model calls

\* the model's output for the samples of one batch, one entry per sample
Evaluate(batch) == [i \in 1..Len(batch) |-> [qoi |-> batch[i]]]

(* RunModel.run(samples, append_samples): the outputs of this batch replace
   qoi_list, or follow what it held; the list object is kept and rewritten
   (in_place) or a new list is bound to the attribute *)
RunModel_run(h, q, batch, append_samples, in_place) ==
    LET new == IF append_samples THEN h[q] \o Evaluate(batch) ELSE Evaluate(batch)
    IN  IF in_place THEN [heap |-> [h EXCEPT ![q] = new], qoi_list |-> q]
        ELSE [heap |-> Append(h, new), qoi_list |-> Len(h) + 1]

\* _run_model handing out the evaluator's own list
_run_model_alias(h, q, batch, in_place) ==
    LET r == RunModel_run(h, q, batch, FALSE, in_place)
    IN  [heap |-> r.heap, qoi_list |-> r.qoi_list, model_evals |-> r.qoi_list,
         append_samples |-> FALSE]

(* Sensitivity._run_model, lines 61-83 *)
_run_model(h, q, batch, in_place) ==
    LET r == RunModel_run(h, q, batch, FALSE, in_place)
    IN  [heap |-> Append(r.heap, r.heap[r.qoi_list]), qoi_list |-> r.qoi_list,
         model_evals |-> Len(r.heap) + 1, append_samples |-> FALSE]

\* one call of _run_model on n new samples
RunModelCall(n, in_place) ==
    /\ Len(returned) < MaxEvalCalls
    /\ LET batch == [i \in 1..n |-> <<Len(returned) + 1, i>>]
           r == _run_model(heap, qoi_list, batch, in_place)
       IN  /\ heap' = r.heap
           /\ qoi_list' = r.qoi_list
           /\ returned' = Append(returned, [ref |-> r.model_evals, samples |-> batch])
           /\ append_flags' = Append(append_flags, r.append_samples)
    /\ UNCHANGED <<mcs_vars, boot_vars, kern_vars, ctor_vars>>

SensNext == \E n \in 1..MaxBatch, in_place \in BOOLEAN : RunModelCall(n, in_place)

---------------------------------------------------------------------------
(* Sensitivity.bootstrapping: the elements of estimator_inputs by type, shape
   and data, the generators made of them, the resamples drawn from numpy's
   global random source, the calls of the estimator, the interval returned.
   The global source is <<seed, position>>: its seed and how many integers it
   has given since it was seeded. *)
MaxInputs == 2      \* most elements of estimator_inputs
MaxBoot == 2        \* largest num_bootstrap_samples
MaxBootCalls == 2   \* most bootstrapping calls on one object

Arr(nd, c, data) == [type |-> "ndarray", ndim |-> nd, cols |-> c, data |-> data]
NoneElement == [type |-> "None", ndim |-> 0, cols |-> 0, data |-> <<>>]
OtherElement == [type |-> "other", ndim |-> 0, cols |-> 0, data |-> <<>>]

\* cols is the length of the last axis; data holds the entries as slices of
\* rows: a 3-D array is its slices, an array of fewer axes is one slice
Elements ==
    { Arr(2, 1, << << <<1>>, <<2>> >> >>),
      Arr(2, 2, << << <<11, 12>>, <<21, 22>>, <<31, 32>> >> >>),
      Arr(2, 2, << << <<7, 8>>, <<7, 8>> >> >>),
      Arr(3, 2, << << <<111, 112>>, <<121, 122>> >>,
                   << <<211, 212>>, <<221, 222>> >>,
                   << <<311, 312>>, <<321, 322>> >> >>),
      Arr(4, 2, <<>>),
      NoneElement, OtherElement }

\* qoi_mean, shape (n_qois, n_outputs)
QoiMeans == { << <<10>>, <<20>> >>, << <<10, 11>>, <<20, 21>> >> }

RECURSIVE SeqsUpTo(_, _)
SeqsUpTo(S, n) ==
    IF n = 0 THEN { <<>> }
    ELSE LET shorter == SeqsUpTo(S, n - 1)
         IN  shorter \cup { Append(q, e) : q \in shorter, e \in S }

\* the raw output of a generator: one sequence of digits, entered at a place
\* that depends on the seed
RawStream ==
    << 3, 1, 4, 1, 5, 9, 2, 6, 5, 3, 5, 8, 9, 7, 9, 3, 2, 3, 8, 4, 6, 2, 6, 4,
       3, 3, 8, 3, 2, 7, 9, 5, 0, 2, 8, 8, 4, 1, 9, 7, 1, 6, 9, 3, 9, 9, 3, 7,
       5, 1, 0, 5, 8, 2, 0, 9, 7, 4, 9, 4, 4, 5, 9, 2, 3, 0, 7, 8, 1, 6, 4 >>

\* the integer numpy's global source seeded with `seed` gives at position pos
\* for np.random.randint(0, high)
randint(seed, pos, high) ==
    RawStream[((7 * seed + pos) % Len(RawStream)) + 1] % high

\* np.random.randint(0, high, size=(rows, cols)), filled row by row
randint_size(seed, pos, high, rows, cols) ==
    [r \in 1..rows |->
        [c \in 1..cols |-> randint(seed, pos + (r - 1) * cols + (c - 1), high)]]

arange(n) == [c \in 1..n |-> c - 1]

(* bootstrap_sample_generator_1D, lines 108-113: one __next__ on the array
   arr the generator was made of *)
bootstrap_sample_generator_1D(arr, seed, pos) ==
    LET n_samples == Len(arr)
        _indices == randint_size(seed, pos, n_samples, 1, n_samples)[1]
    IN  [out |-> [r \in 1..n_samples |-> arr[_indices[r] + 1]],
         indices |-> _indices, drawn |-> n_samples]

(* bootstrap_sample_generator_2D, lines 147-156: one __next__;
   samples[_indices, cols] pairs _indices[r, c] with cols[c] *)
bootstrap_sample_generator_2D(arr, seed, pos) ==
    LET n_samples == Len(arr)
        num_cols == Len(arr[1])
        cols == arange(num_cols)
        _indices == randint_size(seed, pos, n_samples, n_samples, num_cols)
    IN  [out |-> [r \in 1..n_samples |->
                    [c \in 1..num_cols |-> arr[_indices[r][c] + 1][cols[c] + 1]]],
         indices |-> _indices, drawn |-> n_samples * num_cols]

\* the 3-D generator drawing its indices anew for every slice
bootstrap_sample_generator_3D_per_slice(arr, seed, pos) ==
    LET n_samples == Len(arr[1])
        num_cols == Len(arr[1][1])
        idx(k) == randint_size(seed, pos + (k - 1) * n_samples * num_cols,
                               n_samples, n_samples, num_cols)
    IN  [out |-> [k \in 1..Len(arr) |->
                    [r \in 1..n_samples |->
                       [c \in 1..num_cols |-> arr[k][idx(k)[r][c] + 1][c]]]],
         indices |-> idx(1), drawn |-> Len(arr) * n_samples * num_cols]

(* bootstrap_sample_generator_3D, lines 183-191: one __next__;
   samples[:, _indices, cols] keeps the first axis *)
bootstrap_sample_generator_3D(arr, seed, pos) ==
    LET n_samples == Len(arr[1])
        num_cols == Len(arr[1][1])
        cols == arange(num_cols)
        _indices == randint_size(seed, pos, n_samples, n_samples, num_cols)
    IN  [out |-> [k \in 1..Len(arr) |->
                    [r \in 1..n_samples |->
                       [c \in 1..num_cols |->
                          arr[k][_indices[r][c] + 1][cols[c] + 1]]]],
         indices |-> _indices, drawn |-> n_samples * num_cols]

\* gen_input.__next__() of line 294
next(gen_input, seed, pos) ==
    IF gen_input.kind = "1D"
    THEN bootstrap_sample_generator_1D(gen_input.samples, seed, pos)
    ELSE IF gen_input.kind = "2D"
    THEN bootstrap_sample_generator_2D(gen_input.samples, seed, pos)
    ELSE bootstrap_sample_generator_3D(gen_input.samples, seed, pos)

\* a generator and the array it resamples
Generator(kind, input) ==
    [kind |-> kind,
     samples |-> IF kind = "3D" THEN input.data
                 ELSE IF kind = "None" THEN <<>> ELSE input.data[1]]

(* Sensitivity.bootstrapping, lines 253-279: input_generators *)
RECURSIVE create_generators(_, _, _)
create_generators(estimator_inputs, i, input_generators) ==
    IF i > Len(estimator_inputs)
    THEN [raised |-> FALSE, position |-> None, input_generators |-> input_generators]
    ELSE LET input == estimator_inputs[i]
         IN  IF input.type = "ndarray"
             THEN IF input.ndim = 2 /\ input.cols = 1
                  THEN create_generators(estimator_inputs, i + 1,
                           Append(input_generators, Generator("1D", input)))
                  ELSE IF input.ndim = 2 /\ input.cols > 1
                  THEN create_generators(estimator_inputs, i + 1,
                           Append(input_generators, Generator("2D", input)))
                  ELSE IF input.ndim = 3
                  THEN create_generators(estimator_inputs, i + 1,
                           Append(input_generators, Generator("3D", input)))
                  ELSE create_generators(estimator_inputs, i + 1, input_generators)
             ELSE IF input.type = "None"
             THEN create_generators(estimator_inputs, i + 1,
                      Append(input_generators, Generator("None", input)))
             ELSE [raised |-> TRUE, position |-> <<i - 1>>,
                   input_generators |-> input_generators]

(* lines 287-294: the arguments of one estimator call, drawn in order from
   the source at (seed, pos) *)
RECURSIVE generate_samples(_, _, _, _, _)
generate_samples(input_generators, k, seed, pos, args) ==
    IF k > Len(input_generators) THEN [args |-> args, pos |-> pos]
    ELSE LET gen_input == input_generators[k]
         IN  IF gen_input.kind = "None"
             THEN generate_samples(input_generators, k + 1, seed, pos,
                      Append(args, [kind |-> "None", samples |-> <<>>,
                                    indices |-> <<>>, out |-> <<>>, pos |-> pos]))
             ELSE LET nx == next(gen_input, seed, pos)
                  IN  generate_samples(input_generators, k + 1, seed,
                          pos + nx.drawn,
                          Append(args, [kind |-> gen_input.kind,
                                        samples |-> gen_input.samples,
                                        indices |-> nx.indices, out |-> nx.out,
                                        pos |-> pos]))

RECURSIVE SumSeq(_)
SumSeq(q) == IF q = <<>> THEN 0 ELSE q[1] + SumSeq(Tail(q))

SumRows(rows) == SumSeq([r \in 1..Len(rows) |-> SumSeq(rows[r])])

\* the sum of the entries of one argument of the estimator
Total(arg) ==
    IF arg.kind = "None" THEN 0
    ELSE IF arg.kind = "3D"
    THEN SumSeq([k \in 1..Len(arg.out) |-> SumRows(arg.out[k])])
    ELSE SumRows(arg.out)

(* estimator(args): a function of the resamples alone that returns an array
   of shape (n_qois, n_outputs); its first row follows the data, the others
   are the same for every resample *)
estimator(args, n_qois, n_outputs) ==
    [q \in 1..n_qois |->
        [o \in 1..n_outputs |->
            IF q = 1 THEN SumSeq([k \in 1..Len(args) |-> Total(args[k])]) + o
            ELSE 10 * q + o]]

(* lines 284-296 from iteration j on: replicates[j] is estimator(args) of
   iteration j, so bootstrapped_qoi[o, q, j] is replicates[j][q][o] *)
RECURSIVE bootstrap_loop(_, _, _, _, _, _, _)
bootstrap_loop(input_generators, j, num_bootstrap_samples, seed, n_qois, n_outputs, acc) ==
    IF j > num_bootstrap_samples THEN acc
    ELSE LET g == generate_samples(input_generators, 1, seed, acc.pos, <<>>)
         IN  bootstrap_loop(input_generators, j + 1, num_bootstrap_samples, seed,
                 n_qois, n_outputs,
                 [replicates |-> Append(acc.replicates,
                                        estimator(g.args, n_qois, n_outputs)),
                  resamples |-> Append(acc.resamples, g.args),
                  pos |-> g.pos])

(* A float is [nan, centre, sign, num, den]: not a number, or
   centre + sign * delta * sqrt(num / den) with delta the positive finite
   quantile of line 301 for a confidence_level between 0 and 1. *)
Number(v) == [nan |-> FALSE, centre |-> v, sign |-> 0, num |-> 0, den |-> 1]
NaN == [nan |-> TRUE, centre |-> 0, sign |-> 0, num |-> 0, den |-> 1]

\* np.std(xs, ddof=1): the root of num / den, not a number for one replicate
std(xs) ==
    LET B == Len(xs)
        s1 == SumSeq(xs)
        s2 == SumSeq([j \in 1..B |-> xs[j] * xs[j]])
    IN  IF B = 1 THEN [nan |-> TRUE, num |-> 0, den |-> 1]
        ELSE [nan |-> FALSE, num |-> B * s2 - s1 * s1, den |-> B * (B - 1)]

\* mean + sign * delta * std_qoi
Shifted(mean, sign, std_qoi) ==
    IF std_qoi.nan THEN NaN
    ELSE IF std_qoi.num = 0 THEN Number(mean)
    ELSE [nan |-> FALSE, centre |-> mean, sign |-> sign, num |-> std_qoi.num,
          den |-> std_qoi.den]

\* the interval put around the first replicate instead of qoi_mean
confidence_interval_of_replicates(qoi_mean, replicates) ==
    LET n_qois == Len(qoi_mean)
        n_outputs == Len(qoi_mean[1])
        xs(o, q) == [j \in 1..Len(replicates) |-> replicates[j][q][o]]
        ci == [o \in 1..n_outputs |->
                 [q \in 1..n_qois |->
                    << Shifted(xs(o, q)[1], 0 - 1, std(xs(o, q))),
                       Shifted(xs(o, q)[1], 1, std(xs(o, q))) >>]]
    IN  IF n_outputs = 1 THEN ci[1] ELSE ci

(* lines 301-318: confidence_interval_qoi[o][q] = <<lower, upper>>, and the
   2-D array of the one output when n_outputs is 1 *)
confidence_interval(qoi_mean, replicates) ==
    LET n_qois == Len(qoi_mean)
        n_outputs == Len(qoi_mean[1])
        bootstrapped_qoi(o, q) == [j \in 1..Len(replicates) |-> replicates[j][q][o]]
        ci == [o \in 1..n_outputs |->
                 [q \in 1..n_qois |->
                    LET std_qoi == std(bootstrapped_qoi(o, q))
                    IN  << Shifted(qoi_mean[q][o], 0 - 1, std_qoi),
                           Shifted(qoi_mean[q][o], 1, std_qoi) >>]]
    IN  IF n_outputs = 1 THEN ci[1] ELSE ci

\* the resamples of one call, in the order they were drawn
RECURSIVE Flatten(_)
Flatten(qq) == IF qq = <<>> THEN <<>> ELSE qq[1] \o Flatten(Tail(qq))

\* what a call that got through `loop` of the iterations leaves behind
Outcome(outcome, gens, estimator_calls, loop, ci, seed) ==
    [outcome |-> outcome, position |-> None, input_generators |-> gens,
     draws |-> Len(Flatten(loop.resamples)) - Cardinality(
                  {k \in 1..Len(Flatten(loop.resamples)) :
                      Flatten(loop.resamples)[k].kind = "None"}),
     estimator_calls |-> estimator_calls,
     resamples |-> loop.resamples,
     replicates |-> IF outcome = "ok" THEN loop.replicates ELSE <<>>,
     ci |-> ci, np_state |-> <<seed, loop.pos>>]

\* a call that made all its iterations
Finished(gens, num_bootstrap_samples, loop, qoi_mean, seed) ==
    Outcome("ok", gens, num_bootstrap_samples, loop,
            confidence_interval(qoi_mean, loop.replicates), seed)

(* Sensitivity.bootstrapping, lines 237-318, with the global source at
   np_state.  The estimator takes as many positional arguments as
   estimator_inputs has elements, or any number (varargs); when it is handed
   another number of arguments its first call raises a TypeError. *)
bootstrapping_body(varargs, estimator_inputs, qoi_mean, num_bootstrap_samples, np_state) ==
    LET n_qois == Len(qoi_mean)
        n_outputs == Len(qoi_mean[1])
        g == create_generators(estimator_inputs, 1, <<>>)
        gens == g.input_generators
        start == [replicates |-> <<>>, resamples |-> <<>>, pos |-> np_state[2]]
        loop(n) == bootstrap_loop(gens, 1, n, np_state[1], n_qois, n_outputs, start)
    IN  IF g.raised
        THEN [outcome |-> "ValueError", position |-> g.position,
              input_generators |-> gens, draws |-> 0, estimator_calls |-> 0,
              resamples |-> <<>>, replicates |-> <<>>, ci |-> <<>>,
              np_state |-> np_state]
        ELSE IF ~varargs /\ Len(gens) # Len(estimator_inputs)
        THEN Outcome("TypeError", gens, 0, loop(1), <<>>, np_state[1])
        ELSE Finished(gens, num_bootstrap_samples, loop(num_bootstrap_samples),
                      qoi_mean, np_state[1])

\* bootstrapping drawing from the object's own random_state and advancing it
bootstrapping_own_state(self, varargs, estimator_inputs, qoi_mean, num_bootstrap_samples, np_state) ==
    LET r == bootstrapping_body(varargs, estimator_inputs, qoi_mean,
                                num_bootstrap_samples,
                                IF self.random_state = None THEN np_state
                                ELSE self.random_state)
    IN  IF self.random_state = None THEN [result |-> r, self |-> self]
        ELSE [result |-> [r EXCEPT !.np_state = np_state],
              self |-> [self EXCEPT !.random_state = r.np_state]]

(* Sensitivity.bootstrapping, lines 193-318: what the call gives and the
   object after it *)
bootstrapping(self, varargs, estimator_inputs, qoi_mean, num_bootstrap_samples, np_state) ==
    [result |-> bootstrapping_body(varargs, estimator_inputs, qoi_mean,
                                   num_bootstrap_samples, np_state),
     self |-> self]

NotCalled ==
    [outcome |-> "none", position |-> None, input_generators |-> <<>>,
     draws |-> 0, estimator_calls |-> 0, resamples |-> <<>>,
     replicates |-> <<>>, ci |-> <<>>, np_state |-> <<>>]

\* the call record after a call that ended as b: the object, the global
\* source and the history of calls
Called(bt, b) ==
    [bt EXCEPT !.result = b.result,
               !.self = b.self,
               !.np_state = b.result.np_state,
               !.history = Append(bt.history,
                                  [np_before |-> bt.np_state,
                                   outcome |-> b.result.outcome,
                                   ci |-> b.result.ci,
                                   np_after |-> b.result.np_state])]

\* a call of bootstrapping on the arguments drawn, from the global source as
\* it stands
Bootstrapping ==
    /\ Len(boot.history) < MaxBootCalls
    /\ boot' = Called(boot, bootstrapping(boot.self, boot.varargs,
                                          boot.estimator_inputs, boot.qoi_mean,
                                          boot.num_bootstrap_samples,
                                          boot.np_state))
    /\ UNCHANGED <<mcs_vars, sens_vars, kern_vars, ctor_vars>>

\* np.random.seed(seed) between two calls: the global source starts again
Reseed ==
    /\ boot.history # <<>>
    /\ Len(boot.history) < MaxBootCalls
    /\ boot.np_state[2] # 0
    /\ boot' = [boot EXCEPT !.np_state = <<boot.np_state[1], 0>>]
    /\ UNCHANGED <<mcs_vars, sens_vars, kern_vars, ctor_vars>>

BootNext == Bootstrapping \/ Reseed

---------------------------------------------------------------------------
(* GrassmannianKernel.calculate_kernel_matrix.  A point is the sequence of
   the columns of its data. *)
MaxPoints == 3      \* most points of one call

PointSet == { <<1>>, <<1, 2>>, <<2, 1>> }
Ranks == 0..2       \* p; 0 stands for None as well: `if not p`
KernelIds == {1, 2} \* the kernel_entry of two subclasses

RECURSIVE Code(_)
Code(pt) == IF pt = <<>> THEN 0 ELSE pt[1] + 3 * Code(Tail(pt))

\* kernel_entry of the subclass: 1 is symmetric in its arguments, 2 is not
kernel_entry(kid, xi, xj) ==
    IF kid = 1 THEN Code(xi) * Code(xj) ELSE 2 * Code(xi) + Code(xj)

\* GrassmannPoint(point.data[:, :p])
Truncate(pt, p) == SubSeq(pt, 1, IF p < Len(pt) THEN p ELSE Len(pt))

\* the point as line 31-36 hands it to kernel_entry
Scored(pt, p) == IF p = 0 THEN pt ELSE Truncate(pt, p)

\* itertools.combinations_with_replacement(range(nargs), 2), from (i, j) on
RECURSIVE combinations_with_replacement(_, _, _)
combinations_with_replacement(i, j, nargs) ==
    IF i > nargs THEN <<>>
    ELSE IF j > nargs THEN combinations_with_replacement(i + 1, i + 1, nargs)
    ELSE << <<i, j>> >> \o combinations_with_replacement(i, j + 1, nargs)

\* the loop of lines 28-40 from pair id_pair on
RECURSIVE FillKernel(_, _, _, _, _, _)
FillKernel(kid, points, p, pairs, id_pair, acc) ==
    IF id_pair > Len(pairs) THEN acc
    ELSE LET i == pairs[id_pair][1]
             j == pairs[id_pair][2]
             e == kernel_entry(kid, Scored(points[i], p), Scored(points[j], p))
             m1 == [acc.matrix EXCEPT ![i][j] = e]
             m2 == [m1 EXCEPT ![j][i] = m1[i][j]]
         IN  FillKernel(kid, points, p, pairs, id_pair + 1,
                        [acc EXCEPT !.matrix = m2,
                                    !.calls = Append(acc.calls, <<i, j>>)])

\* the loop scoring the mirrored position again instead of copying it
RECURSIVE FillKernelMirrored(_, _, _, _, _, _)
FillKernelMirrored(kid, points, p, pairs, id_pair, acc) ==
    IF id_pair > Len(pairs) THEN acc
    ELSE LET i == pairs[id_pair][1]
             j == pairs[id_pair][2]
             xi == Scored(points[i], p)
             xj == Scored(points[j], p)
             m1 == [acc.matrix EXCEPT ![i][j] = kernel_entry(kid, xi, xj)]
             m2 == [m1 EXCEPT ![j][i] = kernel_entry(kid, xj, xi)]
         IN  FillKernelMirrored(kid, points, p, pairs, id_pair + 1,
                        [acc EXCEPT !.matrix = m2,
                                    !.calls = acc.calls \o << <<i, j>>, <<j, i>> >>])

Zeros(nargs) == [i \in 1..nargs |-> [j \in 1..nargs |-> 0]]

calculate_kernel_matrix_mirrored(kid, points, p) ==
    FillKernelMirrored(kid, points, p,
                       combinations_with_replacement(1, 1, Len(points)), 1,
                       [matrix |-> Zeros(Len(points)), calls |-> <<>>, raised |-> FALSE])

(* GrassmannianKernel.calculate_kernel_matrix, lines 13-42: the matrix, the
   pairs kernel_entry was called for, and whether the call raised.  The slice
   data[:, :p] of line 35 gives the columns there are when there are fewer
   than p, so nothing in lines 13-42 raises. *)
calculate_kernel_matrix(kid, points, p) ==
    FillKernel(kid, points, p, combinations_with_replacement(1, 1, Len(points)),
               1, [matrix |-> Zeros(Len(points)), calls |-> <<>>, raised |-> FALSE])

\* the call of calculate_kernel_matrix on the arguments drawn
CalculateKernelMatrix ==
    /\ ~kernel.called
    /\ kernel' = [kernel EXCEPT
                    !.called = TRUE,
                    !.result = calculate_kernel_matrix(kernel.kid, kernel.points,
                                                       kernel.p)]
    /\ UNCHANGED <<mcs_vars, sens_vars, boot_vars, ctor_vars>>

KernelNext == CalculateKernelMatrix

---------------------------------------------------------------------------
(* Sensitivity.__init__.  An argument is known by its class; a random_state
   argument is [type, value]. *)
MaxDists == 2       \* most elements of a dist_object list

\* classes of the objects passed as runmodel_object and dist_object
RunModelClasses == { "RunModel", "MonteCarloSampling" }
DistClasses ==
    { "DistributionContinuous1D", "JointIndependent", "DistributionND", "ndarray" }

\* isinstance(obj, (DistributionContinuous1D, JointIndependent))
IsAccepted(cls) == cls \in { "DistributionContinuous1D", "JointIndependent" }

RandomState(seed) == [type |-> "RandomState", value |-> <<seed, 0>>]

\* the random_state arguments: None, integers, a generator, a float
SensitivityRandomStates ==
    { [type |-> "NoneType", value |-> None], [type |-> "int", value |-> 1],
      [type |-> "int", value |-> 2], [type |-> "int", value |-> 0 - 1],
      RandomState(1), [type |-> "float", value |-> 1] }

\* np.random.RandomState(seed) takes a seed of 0 .. 2**32 - 1
SeedInRange(seed) == seed >= 0 /\ seed \div 65536 < 65536

NoSelf == [runmodel_object |-> None, dist_object |-> None, random_state |-> None]

\* the constructor storing the seed as it was given
Sensitivity__init__raw(runmodel_object, dist, rs) ==
    IF runmodel_object # "RunModel" THEN [outcome |-> "TypeError", self |-> NoSelf]
    ELSE IF \E i \in 1..Len(dist.ds) : ~IsAccepted(dist.ds[i])
    THEN [outcome |-> "TypeError", self |-> NoSelf]
    ELSE IF rs.type \notin { "NoneType", "int", "RandomState" }
    THEN [outcome |-> "TypeError", self |-> NoSelf]
    ELSE [outcome |-> "ok",
          self |-> [runmodel_object |-> runmodel_object, dist_object |-> dist,
                    random_state |-> rs]]

(* Sensitivity.__init__, lines 22-58: how the call ends and, when it returns,
   the attributes of the object *)
Sensitivity__init__(runmodel_object, dist, rs) ==
    IF runmodel_object # "RunModel"
    THEN [outcome |-> "TypeError", self |-> NoSelf]
    ELSE IF dist.is_list /\ \E i \in 1..Len(dist.ds) : ~IsAccepted(dist.ds[i])
    THEN [outcome |-> "TypeError", self |-> NoSelf]
    ELSE IF ~dist.is_list /\ ~IsAccepted(dist.ds[1])
    THEN [outcome |-> "TypeError", self |-> NoSelf]
    ELSE IF rs.type = "int"
    THEN IF SeedInRange(rs.value)
         THEN [outcome |-> "ok",
               self |-> [runmodel_object |-> runmodel_object, dist_object |-> dist,
                         random_state |-> RandomState(rs.value)]]
         ELSE [outcome |-> "ValueError", self |-> NoSelf]
    ELSE IF ~(rs.type = "NoneType" \/ rs.type = "RandomState")
    THEN [outcome |-> "TypeError", self |-> NoSelf]
    ELSE [outcome |-> "ok",
          self |-> [runmodel_object |-> runmodel_object, dist_object |-> dist,
                    random_state |-> rs]]

NotConstructed == [outcome |-> "none", self |-> NoSelf]

\* the constructor call on the arguments drawn
SensitivityInit ==
    /\ sensitivity.result = NotConstructed
    /\ sensitivity' = [sensitivity EXCEPT !.result =
                         Sensitivity__init__(sensitivity.runmodel_object,
                                             sensitivity.dist_object,
                                             sensitivity.random_state)]
    /\ UNCHANGED <<mcs_vars, sens_vars, boot_vars, kern_vars>>

CtorNext == SensitivityInit

---------------------------------------------------------------------------
\* the arguments of one call of Sensitivity(...)
SensitivityArguments ==
    { [runmodel_object |-> rm, dist_object |-> d, random_state |-> rs,
       result |-> NotConstructed] :
         rm \in RunModelClasses,
         d \in { Single(c) : c \in DistClasses }
                 \cup { ListOf(q) : q \in SeqsUpTo(DistClasses, MaxDists) },
         rs \in SensitivityRandomStates }

\* the arguments of one call of bootstrapping
BootArguments ==
    { [estimator_inputs |-> inputs, num_bootstrap_samples |-> nb,
       varargs |-> varargs, qoi_mean |-> qoi_mean, np_state |-> <<seed, 0>>,
       self |-> [random_state |-> <<3, 0>>], result |-> NotCalled,
       history |-> <<>>] :
         inputs \in SeqsUpTo(Elements, MaxInputs), nb \in 1..MaxBoot,
         varargs \in BOOLEAN, qoi_mean \in QoiMeans, seed \in Seeds }

\* the arguments of one call of calculate_kernel_matrix
KernelArguments ==
    { [kid |-> kid, points |-> points, p |-> p, called |-> FALSE,
       result |-> [matrix |-> <<>>, calls |-> <<>>, raised |-> FALSE]] :
         kid \in KernelIds, points \in SeqsUpTo(PointSet, MaxPoints), p \in Ranks }

\* no sampler built, a RunModel that has not run, and the arguments of the
\* bootstrapping and kernel calls the behaviour makes (one choice, or any)
Init(boot_choices, kernel_choices, ctor_choices) ==
    /\ built = FALSE
    /\ dist_object = Single(Norm1)
    /\ array = FALSE
    /\ list = FALSE
    /\ random_state = None
    /\ np_global = 0
    /\ samples = NoArray
    /\ x = NoArray
    /\ samples_number = None
    /\ samplesU01 = NoArray
    /\ ragged_ok = FALSE
    /\ last = Call("none", "ok")
    /\ segs = <<>>
    /\ u01_src = NoArray
    /\ ncalls = 0
    /\ clean = TRUE
    /\ heap = << <<>> >>
    /\ qoi_list = 1
    /\ returned = <<>>
    /\ append_flags = <<>>
    /\ boot \in boot_choices
    /\ kernel \in kernel_choices
    /\ sensitivity \in ctor_choices

OneBoot == { CHOOSE b \in BootArguments : b.estimator_inputs = <<>> }
OneKernel == { CHOOSE k \in KernelArguments : k.points = <<>> }
OneCtor == { CHOOSE c \in SensitivityArguments : c.dist_object = ListOf(<<>>) }

\* one sampler: its construction, its runs and its transforms
SpecMCS == Init(OneBoot, OneKernel, OneCtor) /\ [][MCSNext]_vars
\* one Sensitivity object driving its RunModel
SpecSensitivity == Init(OneBoot, OneKernel, OneCtor) /\ [][SensNext]_vars
\* one call of Sensitivity.bootstrapping for every choice of its arguments
SpecBootstrap == Init(BootArguments, OneKernel, OneCtor) /\ [][BootNext]_vars
\* one call of calculate_kernel_matrix for every choice of its arguments
SpecKernel == Init(OneBoot, KernelArguments, OneCtor) /\ [][KernelNext]_vars
\* one construction of a Sensitivity object for every choice of its arguments
SpecConstruct == Init(OneBoot, OneKernel, SensitivityArguments) /\ [][CtorNext]_vars

---------------------------------------------------------------------------
(* Claims about MonteCarloSampling, checked under SpecMCS *)

RECURSIVE SumN(_)
SumN(sg) == IF sg = <<>> THEN 0 ELSE sg[1].n + SumN(Tail(sg))

IsPrefix(a, b) == Len(a) <= Len(b) /\ SubSeq(b, 1, Len(a)) = a

\* a run, of the constructor or a later one, has just returned normally
RanOk(n, a) ==
    \/ Run(n, a) /\ last'.outcome = "ok"
    \/ \E d \in DistObjects : Construct(d, <<n>>, a) /\ last'.outcome = "ok"

\* stream positions one run of n samples consumes
Drawn(do, n) ==
    IF do.is_list THEN Len(do.ds) * n ELSE IF do.ds[1].rvs THEN n ELSE 0

\* what a sampler of dist_object makes of one run(n) from stream (seed, pos)
SingleRun(do, n, seed, pos) ==
    run([random_state |-> <<seed, pos>>, np_global |-> 0, samples |-> NoArray,
         x |-> NoArray, samples_number |-> None],
        do, _process_distributions(do).array, ragged_ok, n,
        [kind |-> "none", seed |-> 0, pos |-> 0]).st.samples

(* C1: after any sequence of successful run calls, each run(n) adds exactly
   n rows to samples, and samples_number is the length of samples. *)
C1_RunAddsExactlyN ==
    [][\A n \in Counts, a \in RandomStateArgs :
          (clean /\ RanOk(n, a)) =>
              /\ samples'.tag = "rows"
              /\ Len(samples'.rows) = Len(samples.rows) + n
              /\ samples_number' = <<Len(samples'.rows)>>]_vars

(* C2: run(n1) then run(n2) gives n1+n2 rows, the first n1 of them the rows
   a single run(n1) gives under the same seed; later runs keep earlier rows. *)
C2_AppendKeepsHistory ==
    (clean /\ Len(segs) = 2) =>
        /\ Len(samples.rows) = segs[1].n + segs[2].n
        /\ SubSeq(samples.rows, 1, segs[1].n)
             = SingleRun(dist_object, segs[1].n, segs[1].seed, segs[1].pos).rows

HasNoRvs(do) == \E i \in 1..Len(do.ds) : ~do.ds[i].rvs
HasNoCdf(do) == \E i \in 1..Len(do.ds) : ~do.ds[i].cdf

(* C4: run on a sampler with a distribution that has no rvs raises, and
   transform_u01 on a sampler with a distribution that has no cdf raises:
   neither call returns normally. *)
C4_MissingCapabilityRaises ==
    /\ (built /\ last.op = "run" /\ HasNoRvs(dist_object)) => last.outcome # "ok"
    /\ (built /\ last.op = "transform_u01" /\ HasNoCdf(dist_object))
          => last.outcome # "ok"

(* C5: run with a count of 0 or less is turned away before any sampling: no
   stream is drawn from and samples, samples_number, samplesU01 and the stored
   random state stay as they were. *)
C5_NonPositiveCountRejected ==
    [][\A n \in Counts, a \in RandomStateArgs :
          (Run(n, a) /\ n <= 0) =>
              /\ last'.outcome = "BeartypeCallHintParamViolation"
              /\ UNCHANGED <<samples, samples_number, samplesU01, random_state,
                             np_global, x>>]_vars

C5_Witness ==
    /\ last = Call("run", "BeartypeCallHintParamViolation")
    /\ samples.tag = "rows" /\ Len(samples.rows) = 2
    /\ random_state # None
    /\ samplesU01.tag = "rows"

\* self.samplesU01 is the transform of self.samples as the last transform
\* that returned found it
U01IsImageOfSource ==
    samplesU01 =
        IF u01_src.tag = "none" THEN NoArray
        ELSE transform_u01(dist_object, array, list, u01_src,
                           <<Len(u01_src.rows)>>).u01

(* C6: samplesU01 is written only by transform_u01 and is the CDF image of
   samples as the most recent transform found it; a run after a transform
   leaves it unchanged and so shorter than samples; two transforms in a row
   give the same output. *)
C6_U01StaleUntilTransformed ==
    [][/\ U01IsImageOfSource'
       /\ samplesU01' # samplesU01 => last'.op = "transform_u01"
       /\ \A n \in Counts, a \in RandomStateArgs :
             (Run(n, a) /\ last'.outcome = "ok" /\ samplesU01.tag = "rows") =>
                 /\ samplesU01' = samplesU01
                 /\ Len(samplesU01'.rows) < Len(samples'.rows)
       /\ (TransformU01 /\ last = Call("transform_u01", "ok")
             /\ last'.outcome = "ok") => samplesU01' = samplesU01]_vars

ListOf1D == built /\ dist_object.is_list /\ array /\ Len(dist_object.ds) >= 1

(* C7, as stated: for a list of k 1-D distributions run(n) gives shape (n, k)
   and every column j is what standalone sampling of distribution j gives
   with the same seed. *)
C7_ColumnsMatchStandalone ==
    (ListOf1D /\ clean /\ Len(segs) = 1) =>
        LET g == segs[1]
            ds == dist_object.ds
        IN  /\ Len(samples.rows) = g.n
            /\ \A r \in 1..g.n :
                  /\ Len(samples.rows[r]) = Len(ds)
                  /\ \A j \in 1..Len(ds) :
                        samples.rows[r][j] = rvs(ds[j], g.n, g.seed, g.pos)[r][1]

RECURSIVE Offset(_, _)
Offset(sg, i) == IF i <= 1 THEN 0 ELSE sg[i - 1].n + Offset(sg, i - 1)

(* C7, amended: for a non-empty list of k 1-D distributions every run(n)
   appends n rows of k columns; the distributions draw in list order from the
   one generator, so column j holds distribution j's draws from the stream
   advanced past the (j-1)*n draws of the distributions before it. *)
C7_ColumnsFromSharedStream ==
    (ListOf1D /\ clean) =>
        LET ds == dist_object.ds
        IN  /\ Len(samples.rows) = SumN(segs)
            /\ \A i \in 1..Len(segs) : \A r \in 1..segs[i].n :
                  LET row == samples.rows[Offset(segs, i) + r]
                  IN  /\ Len(row) = Len(ds)
                      /\ \A j \in 1..Len(ds) :
                            row[j] = rvs(ds[j], segs[i].n, segs[i].seed,
                                         segs[i].pos + (j - 1) * segs[i].n)[r][1]

C7_Witness ==
    /\ ListOf1D /\ clean /\ Len(dist_object.ds) = 2
    /\ Len(segs) = 2 /\ segs[1].n = 2
    /\ Len(samples.rows) = 3
    /\ samples.rows[1][2] # rvs(dist_object.ds[2], 2, segs[1].seed, segs[1].pos)[1][1]

(* C8, as stated: a seed given to run in the middle of a sequence of runs is
   used for that batch only and is not the random source of a later run made
   without a seed. *)
C8_SeedOnlyForItsBatch ==
    (clean /\ Len(segs) >= 3 /\ ~segs[1].seeded /\ segs[2].seeded /\ ~segs[3].seeded)
        => segs[3].seed = segs[1].seed

RECURSIVE RowsOfSegs(_, _)
RowsOfSegs(do, sg) ==
    IF sg = <<>> THEN <<>>
    ELSE SingleRun(do, sg[1].n, sg[1].seed, sg[1].pos).rows \o RowsOfSegs(do, Tail(sg))

\* the rows the runs that returned have drawn, one run after the other
RowsDrawn == RowsOfSegs(dist_object, segs)

\* a run without a seed goes on from where the run before it left the generator
SeedCarries ==
    \A i \in 1..(Len(segs) - 1) :
        ~segs[i + 1].seeded =>
            /\ segs[i + 1].seed = segs[i].seed
            /\ segs[i + 1].pos = segs[i].pos + Drawn(dist_object, segs[i].n)

(* C8, amended: a seed given to run in the middle of a sequence leaves the
   rows of earlier calls as they are, the batch of that call is drawn from the
   generator made of the seed, and that generator is stored: a later run
   without a seed goes on drawing from it. *)
C8_SeedIsStored ==
    [][/\ (samples.tag = "rows" /\ samples'.tag = "rows")
             => IsPrefix(samples.rows, samples'.rows)
       /\ (built' /\ clean' /\ segs' # <<>>) =>
             /\ SeedCarries'
             /\ samples'.rows = RowsDrawn']_vars

C8_Witness ==
    /\ clean /\ Len(segs) = 3 /\ Len(samples.rows) = 3
    /\ ~segs[1].seeded /\ segs[2].seeded /\ ~segs[3].seeded
    /\ segs[2].seed # segs[1].seed
    /\ segs[3].seed = segs[2].seed /\ segs[3].pos = 1


---------------------------------------------------------------------------
(* Claims about Sensitivity.bootstrapping, checked under SpecBootstrap *)

\* an element bootstrapping has no generator for: an array of a rank that is
\* none of 1, 2, 3, or something that is neither an array nor None
Malformed(e) ==
    \/ e.type = "ndarray" /\ e.ndim \notin {1, 2, 3}
    \/ e.type = "other"

FirstMalformed(inputs) ==
    CHOOSE i \in 1..Len(inputs) :
        Malformed(inputs[i]) /\ \A j \in 1..(i - 1) : ~Malformed(inputs[j])

(* C3: an element of estimator_inputs that is an array of an unsupported rank
   or neither an array nor None makes bootstrapping raise a ValueError naming
   its position, before a resample is drawn or the estimator called; none is
   skipped. *)
C3_MalformedInputRaises ==
    (boot.result # NotCalled) =>
      ((\E i \in 1..Len(boot.estimator_inputs) : Malformed(boot.estimator_inputs[i])) =>
        /\ boot.result.outcome = "ValueError"
        /\ boot.result.position = <<FirstMalformed(boot.estimator_inputs) - 1>>
        /\ boot.result.draws = 0
        /\ boot.result.estimator_calls = 0)

\* the objects bootstrapping may be called on, by their random_state
SelfStates == { [random_state |-> None], [random_state |-> <<1, 2>>] }

Drawing(res) == SelectSeq(Flatten(res.resamples), LAMBDA a : a.kind # "None")

(* C13: two bootstrapping calls with the same arguments that start from the
   same state of the global random source end the same way and return the
   same interval; the resampling of a call starts at the state the global
   source has when the call is made; the object's attributes, random_state
   among them, are neither changed by a call nor have any effect on what it
   returns. *)
C13_BootstrappingStateless ==
    [][/\ boot'.self = boot.self
       /\ \A a, b \in 1..Len(boot'.history) :
             boot'.history[a].np_before = boot'.history[b].np_before
                => boot'.history[a] = boot'.history[b]
       /\ Len(boot'.history) > Len(boot.history) =>
             /\ Drawing(boot'.result) # <<>>
                   => Drawing(boot'.result)[1].pos = boot.np_state[2]
             /\ \A me \in SelfStates :
                   bootstrapping(me, boot.varargs, boot.estimator_inputs,
                                 boot.qoi_mean, boot.num_bootstrap_samples,
                                 boot.np_state).result = boot'.result]_vars

C13_Witness ==
    /\ Len(boot.history) = 2
    /\ boot.history[1].np_before = boot.history[2].np_before
    /\ boot.history[1].outcome = "ok"
    /\ boot.history[1].np_after # boot.history[1].np_before
    /\ boot.history[2].ci = boot.history[1].ci
    /\ boot.num_bootstrap_samples = 2
    /\ boot.result.replicates[1] # boot.result.replicates[2]

(* C14: when the replicates of a qoi and output are all equal, so that their
   standard deviation is zero, the lower and the upper bound returned for
   that qoi and output both equal qoi_mean. *)
C14_ZeroStdGivesMean ==
    (boot.result.outcome = "ok") =>
        LET qm == boot.qoi_mean
            reps == boot.result.replicates
            B == Len(reps)
            n_outputs == Len(qm[1])
            interval(o, q) == IF n_outputs = 1 THEN boot.result.ci[q]
                              ELSE boot.result.ci[o][q]
        IN  \A o \in 1..n_outputs, q \in 1..Len(qm) :
               (B >= 2 /\ \A j \in 1..B : reps[j][q][o] = reps[1][q][o]) =>
                   interval(o, q) = << Number(qm[q][o]), Number(qm[q][o]) >>

C14_Witness ==
    /\ boot.result.outcome = "ok"
    /\ boot.num_bootstrap_samples = 2
    /\ boot.estimator_inputs = << Arr(2, 2, << << <<7, 8>>, <<7, 8>> >> >>) >>
    /\ Len(boot.qoi_mean[1]) = 2
    /\ boot.result.replicates[1][1][2] # boot.qoi_mean[1][2]
    /\ boot.result.ci[2][1] = << Number(boot.qoi_mean[1][2]), Number(boot.qoi_mean[1][2]) >>

(* C15: an array a 2-D or 3-D generator yields has the shape of the
   generator's array, and its entries of column c are entries of column c of
   that array: out[r][c] = in[idx[r][c]][c] with one index drawn for every
   position (r, c), and for a 3-D array out[k][r][c] = in[k][idx[r][c]][c]
   with the one idx for all slices k. *)
C15_ResamplesKeepColumns ==
    \A i \in 1..Len(Drawing(boot.result)) :
        LET a == Drawing(boot.result)[i]
            seed == boot.np_state[1]
            shape2 == a.kind = "2D"
            n == IF shape2 THEN Len(a.samples) ELSE Len(a.samples[1])
            m == IF shape2 THEN Len(a.samples[1]) ELSE Len(a.samples[1][1])
            idx(r, c) == randint(seed, a.pos + (r - 1) * m + (c - 1), n)
        IN  /\ a.kind = "2D" =>
                /\ Len(a.out) = n
                /\ \A r \in 1..n :
                      /\ Len(a.out[r]) = m
                      /\ \A c \in 1..m :
                            /\ a.out[r][c] = a.samples[idx(r, c) + 1][c]
                            /\ \E r2 \in 1..n : a.out[r][c] = a.samples[r2][c]
            /\ a.kind = "3D" =>
                /\ Len(a.out) = Len(a.samples)
                /\ \A k \in 1..Len(a.samples) :
                      /\ Len(a.out[k]) = n
                      /\ \A r \in 1..n :
                            /\ Len(a.out[k][r]) = m
                            /\ \A c \in 1..m :
                                  a.out[k][r][c] = a.samples[k][idx(r, c) + 1][c]

C15_Witness ==
    /\ boot.result.outcome = "ok"
    /\ Len(Drawing(boot.result)) >= 2
    /\ Drawing(boot.result)[1].kind = "2D"
    /\ Len(Drawing(boot.result)[1].samples) = 3
    /\ Drawing(boot.result)[1].out # Drawing(boot.result)[1].samples
    /\ Drawing(boot.result)[2].kind = "3D"
    /\ Drawing(boot.result)[2].out # Drawing(boot.result)[2].samples
    /\ Drawing(boot.result)[2].indices[1] # Drawing(boot.result)[2].indices[2]

---------------------------------------------------------------------------
(* Claims about Sensitivity._run_model, checked under SpecSensitivity *)

(* C9: every evaluator run is made with append_samples=False, every array
   _run_model returns holds one entry per sample of its call, and an array
   returned earlier is not changed by later evaluator runs. *)
C9_RunModelSnapshots ==
    /\ \A k \in 1..Len(append_flags) : append_flags[k] = FALSE
    /\ \A k \in 1..Len(returned) :
          /\ Len(heap[returned[k].ref]) = Len(returned[k].samples)
          /\ heap[returned[k].ref] = Evaluate(returned[k].samples)

C9_Witness ==
    /\ Len(returned) = 3
    /\ qoi_list = 1
    /\ Len(returned[1].samples) # Len(returned[3].samples)
    /\ heap[qoi_list] # heap[returned[1].ref]

---------------------------------------------------------------------------
(* Claims about calculate_kernel_matrix, checked under SpecKernel *)

(* C10: the matrix of n points is n by n and symmetric, its diagonal holds
   kernel_entry of each point with itself, and kernel_entry is called once
   for every pair i <= j and never for a mirrored position. *)
C10_KernelMatrixSymmetric ==
    kernel.called =>
        LET n == Len(kernel.points)
            M == kernel.result.matrix
            calls == kernel.result.calls
            pt(i) == Scored(kernel.points[i], kernel.p)
        IN  /\ Len(M) = n
            /\ \A i \in 1..n : Len(M[i]) = n
            /\ \A i, j \in 1..n : M[i][j] = M[j][i]
            /\ \A i \in 1..n : M[i][i] = kernel_entry(kernel.kid, pt(i), pt(i))
            /\ 2 * Len(calls) = n * (n + 1)
            /\ \A c \in 1..Len(calls) : calls[c][1] <= calls[c][2]
            /\ \A i, j \in 1..n :
                  i <= j => Cardinality({c \in 1..Len(calls) : calls[c] = <<i, j>>}) = 1

C10_Witness ==
    /\ kernel.called /\ kernel.kid = 2 /\ Len(kernel.points) = 3
    /\ kernel.result.matrix[2][1]
         # kernel_entry(2, Scored(kernel.points[2], kernel.p),
                           Scored(kernel.points[1], kernel.p))
    /\ kernel.result.matrix[2][1] = kernel.result.matrix[1][2]

\* a rank p is asked for and some point has fewer than p columns
ShortPoint ==
    /\ kernel.p # 0
    /\ \E i \in 1..Len(kernel.points) : Len(kernel.points[i]) < kernel.p

(* C11: calculate_kernel_matrix called with a rank p raises when some point
   has fewer than p columns, and kernel_entry is never called on a point cut
   to fewer than p columns. *)
C11_ShortPointFails ==
    (kernel.called /\ ShortPoint) =>
        /\ kernel.result.raised
        /\ \A c \in 1..Len(kernel.result.calls) :
              \A k \in 1..2 :
                 Len(Scored(kernel.points[kernel.result.calls[c][k]], kernel.p))
                    = kernel.p

---------------------------------------------------------------------------
(* Claims about Sensitivity.__init__, checked under SpecConstruct *)

(* C12: constructing a Sensitivity raises a TypeError when the model is not a
   RunModel, when the distribution or an element of the distribution list is
   neither a DistributionContinuous1D nor a JointIndependent, or when
   random_state is none of None, an integer, a RandomState; an object that
   was constructed holds None or a RandomState as random_state, never the
   integer. *)
C12_ConstructorTypeChecks ==
    (sensitivity.result # NotConstructed) =>
        LET a == sensitivity
            res == sensitivity.result
        IN  /\ a.runmodel_object # "RunModel" => res.outcome = "TypeError"
            /\ (\E i \in 1..Len(a.dist_object.ds) : ~IsAccepted(a.dist_object.ds[i]))
                  => res.outcome = "TypeError"
            /\ a.random_state.type \notin { "NoneType", "int", "RandomState" }
                  => res.outcome = "TypeError"
            /\ res.outcome = "ok" =>
                  /\ res.self.random_state.type \in { "NoneType", "RandomState" }
                  /\ a.random_state.type = "int" =>
                        res.self.random_state = RandomState(a.random_state.value)

C12_Witness ==
    /\ sensitivity.result.outcome = "ok"
    /\ sensitivity.random_state = [type |-> "int", value |-> 2]
    /\ sensitivity.result.self.random_state = RandomState(2)
    /\ sensitivity.dist_object.is_list /\ Len(sensitivity.dist_object.ds) = 2

====
